---- MODULE Spec2Model ----
(***************************************************************************)
(* Walkers of salve's leaf patterns (Empty, Value) and of Define, with the *)
(* Walker base class they share: event dispatch, possibility sets and      *)
(* their cache, termination, suppression of attributes and cloning.        *)
(*                                                                         *)
(* Objects live in heaps indexed by positive integers; 0 stands for        *)
(* undefined.  Texts are sequences of characters so that the datatypes'    *)
(* whitespace handling and the Empty walker's /\S/ test are computed.      *)
(***************************************************************************)
EXTENDS Integers, Sequences, FiniteSets, TLC

\* Bounds of the model.
MaxLen == 2      \* longest text of an event
MaxRoots == 2    \* walkers a caller holds at once

\* JavaScript's undefined, for a reference (object ids are positive).
Undefined == 0

(***************************************************************************)
(* Texts.                                                                  *)
(***************************************************************************)
Chars == {"a", " "}

TextsUpTo(n) == UNION {[1..k -> Chars] : k \in 0..n}

Texts == TextsUpTo(MaxLen)

\* The raw values of the schema's Value pattern: no or one character.
RawValues == {<<>>} \cup {<<c>> : c \in Chars}

\* /\S/.test(s): does s hold a character that is not white space?
HasNonSpace(s) == \E i \in 1..Len(s) : s[i] # " "

(***************************************************************************)
(* Name resolver: prefix -> URI.  Unbound marks a prefix without mapping.  *)
(***************************************************************************)
Prefixes == {<<>>, <<"a">>}

Uris == {"", "u"}

Unbound == "unbound"

\* new NameResolver(): the default prefix is mapped to no namespace.
NewNameResolver == [p \in Prefixes |-> IF p = <<>> THEN "" ELSE Unbound]

\* NameResolver.definePrefix(prefix, uri)
definePrefix(nr, prefix, uri) == [nr EXCEPT ![prefix] = uri]

IsNCName(s) == s # <<>> /\ \A i \in 1..Len(s) : s[i] = "a"

\* NameResolver.resolveName(qname): <<>> when the name cannot be resolved,
\* <<<<uri, local>>>> otherwise.
resolveName(nr, qn) ==
  LET colons == {i \in 1..Len(qn) : qn[i] = ":"}
  IN IF colons = {}
     THEN (IF IsNCName(qn) /\ nr[<<>>] # Unbound
           THEN << <<nr[<<>>], qn>> >> ELSE <<>>)
     ELSE IF Cardinality(colons) # 1 THEN <<>>
     ELSE LET i == CHOOSE k \in colons : TRUE
              prefix == SubSeq(qn, 1, i - 1)
              local == SubSeq(qn, i + 1, Len(qn))
          IN IF IsNCName(prefix) /\ IsNCName(local)
                /\ prefix \in Prefixes /\ nr[prefix] # Unbound
             THEN << <<nr[prefix], local>> >> ELSE <<>>

(***************************************************************************)
(* Datatypes: string and token of the builtin library, QName.              *)
(***************************************************************************)
Types == {"string", "token", "QName"}

RECURSIVE Collapse(_)
Collapse(s) ==
  IF Len(s) < 2 THEN s
  ELSE IF s[1] = " " /\ s[2] = " " THEN Collapse(Tail(s))
  ELSE <<s[1]>> \o Collapse(Tail(s))

StripEnds(s) ==
  LET a == IF s # <<>> /\ Head(s) = " " THEN Tail(s) ELSE s
  IN IF a # <<>> /\ a[Len(a)] = " " THEN SubSeq(a, 1, Len(a) - 1) ELSE a

\* White space collapsed and stripped, as the token datatype compares.
normalizeSpace(s) == StripEnds(Collapse(s))

\* Datatype.needsContext
needsContext(type) == type = "QName"

\* Datatype.convertValue: <<>> when the lexical form is not allowed,
\* <<v>> otherwise.  ctx is a name resolver (read only when needed).
convertValue(type, s, ctx) ==
  CASE type = "string" -> <<s>>
    [] type = "token" -> <<normalizeSpace(s)>>
    [] type = "QName" -> resolveName(ctx, normalizeSpace(s))

\* Datatype.parseValue: raises on a lexical form the datatype disallows.
parseValue(type, s, ctx) ==
  LET c == convertValue(type, s, ctx)
  IN [threw |-> c = <<>>, value |-> c]

\* Datatype.equal(value, schemaValue, context): an invalid value is not equal.
equal(type, s, schemaValue, ctx) ==
  LET c == convertValue(type, s, ctx)
  IN c # <<>> /\ c = schemaValue

(***************************************************************************)
(* The class Event.  A parameter is a string, here the tuple of its        *)
(* characters; the cache is a function from keys to Event objects.         *)
(***************************************************************************)
\* The most Event objects created.
MaxEvents == 3

\* The parameters of the events constructed: some hold the separator that
\* Array.prototype.join puts between the parameters.
EventStrings == {<<"a">>, <<"b">>, <<"a", ",", "b">>}

ParamLists ==
  {<<>>} \cup {<<x>> : x \in EventStrings}
         \cup {<<x, y>> : x, y \in EventStrings}

\* params.join()
RECURSIVE join(_)
join(params) ==
  IF Len(params) = 0 THEN <<>>
  ELSE IF Len(params) = 1 THEN params[1]
  ELSE params[1] \o <<",">> \o join(Tail(params))

\* The two ways to pass the parameters: in the call, or as one list.
Spread(params) == [spread |-> params]

List(params) == [list |-> params]

\* A variant of the constructor that creates an Event without recording it
\* in the cache.
Event_constructor_uncached(ev, args) ==
  LET params == IF "list" \in DOMAIN args THEN args.list ELSE args.spread
      key == join(params)
  IN IF key \in DOMAIN ev.cache THEN [ev |-> ev, ret |-> ev.cache[key]]
     ELSE [ev |-> [ev EXCEPT !.events = Append(@, [id |-> ev.id,
                                                   params |-> params,
                                                   key |-> key]),
                             !.id = @ + 1],
           ret |-> Len(ev.events) + 1]

\* new Event(...args)
Event_constructor(ev, args) ==
  LET params == IF "list" \in DOMAIN args THEN args.list ELSE args.spread
      key == join(params)
  IN IF key \in DOMAIN ev.cache THEN [ev |-> ev, ret |-> ev.cache[key]]
     ELSE [ev |-> [events |-> Append(ev.events, [id |-> ev.id,
                                                 params |-> params,
                                                 key |-> key]),
                   cache |-> [k \in DOMAIN ev.cache \cup {key} |->
                                IF k = key THEN Len(ev.events) + 1
                                ELSE ev.cache[k]],
                   id |-> ev.id + 1],
           ret |-> Len(ev.events) + 1]

(***************************************************************************)
(* Events.  An event is the tuple of its parameters, the kind first; Event *)
(* objects are interned, so an event is identified with its parameters.    *)
(***************************************************************************)
Event(kind, params) == <<kind>> \o params

emptyEvent == Event("<empty>", <<>>)

\* The events a caller fires: texts, and events of other kinds.
InputEvents ==
  {Event(kind, <<t>>) : kind \in {"text", "attributeValue"}, t \in Texts}
    \cup {emptyEvent}

\* Those that tell the states of a walker apart: the short texts, and an
\* event of another kind.
FewEvents == {Event("text", <<t>>) : t \in RawValues} \cup {emptyEvent}

\* The first argument a fireEvent receives: a string (the leaf walkers'
\* signature) or an Event object (the signature Walker declares).
StrArg(s) == [str |-> s]

EventArg(ev) == [event |-> ev]

IsStr(arg, s) == "str" \in DOMAIN arg /\ arg.str = s

\* Results of fireEvent and end.
Ok == "Ok"

NoMatch == "NoMatch"

Threw == "Threw"

(***************************************************************************)
(* The heap: h.pats (patterns), h.walkers, h.resolvers (name resolvers)    *)
(* and h.sets (event sets), each a sequence indexed by object id.          *)
(***************************************************************************)
\* The datatype libraries and the types each registers: the builtin library
\* and that of XML Schema.  No other library is registered.
Xsd == "http://www.w3.org/2001/XMLSchema-datatypes"

registry == [lib \in {"", Xsd} |->
               IF lib = "" THEN {"string", "token"}
               ELSE {"string", "token", "QName"}]

\* registry.get(datatypeLibrary).types[type] is a datatype.
Registered(datatypeLibrary, type) ==
  datatypeLibrary \in DOMAIN registry /\ type \in registry[datatypeLibrary]

\* The library the schemas take a type from.
LibraryOf(type) == IF type = "QName" THEN Xsd ELSE ""

\* The fields of the pattern classes; each class sets its own.
BasePattern ==
  [cls |-> "", id |-> 0, rawValue |-> <<>>, type |-> "",
   datatypeLibrary |-> "", ns |-> "", value |-> <<>>,
   pat |-> Undefined, patA |-> Undefined, patB |-> Undefined, name |-> "",
   resolvesTo |-> Undefined]

\* this.id of the patterns of a list, constructed in the order of the list
\* as the first patterns of the run.
Constructed(ps) == [i \in 1..Len(ps) |-> [ps[i] EXCEPT !.id = i - 1]]

EmptyPattern == [BasePattern EXCEPT !.cls = "Empty"]

\* new Value(xmlPath, value, type, datatypeLibrary, ns): _value is not set.
ValuePattern(raw, type, ns) ==
  [BasePattern EXCEPT !.cls = "Value", !.rawValue = raw, !.type = type,
                      !.datatypeLibrary = LibraryOf(type), !.ns = ns]

\* new Define(xmlPath, name, pat)
DefinePattern(name, pat) ==
  [BasePattern EXCEPT !.cls = "Define", !.pat = pat, !.name = name]

\* new Ref(xmlPath, name): resolvesTo is not set.
RefPattern(name) == [BasePattern EXCEPT !.cls = "Ref", !.name = name]

\* new TwoSubpatterns(xmlPath, patA, patB)
TwoSubpatterns(patA, patB) ==
  [BasePattern EXCEPT !.cls = "TwoSubpatterns", !.patA = patA, !.patB = patB]

\* A variant of __newID that does not advance the counter.
BasePattern__newID_same(id) == [ret |-> id, id |-> id]

\* BasePattern.__newID(): Pattern.__id++, given the counter.
BasePattern__newID(id) == [ret |-> id, id |-> id + 1]

\* BasePattern.constructor, for the fields of a class: this.id.
BasePattern_constructor(id, fields) ==
  LET n == BasePattern__newID(id)
  IN [el |-> [fields EXCEPT !.id = n.ret], id |-> n.id]

\* BasePattern.hash()
hash(el) == el.id

\* A variant of Value.constructor that takes whatever the registry gives.
Value_constructor_unchecked(id, value, type, datatypeLibrary, ns) ==
  LET b == BasePattern_constructor(id,
             [BasePattern EXCEPT !.cls = "Value", !.rawValue = value,
                                 !.type = type, !.ns = ns,
                                 !.datatypeLibrary = datatypeLibrary])
  IN [threw |-> FALSE, el |-> b.el, id |-> b.id]

\* new Value(xmlPath, value, type, datatypeLibrary, ns): raises, after the
\* base class took an id, when the registry has no such datatype.
Value_constructor(id, value, type, datatypeLibrary, ns) ==
  LET b == BasePattern_constructor(id,
             [BasePattern EXCEPT !.cls = "Value", !.rawValue = value,
                                 !.type = type, !.ns = ns,
                                 !.datatypeLibrary = datatypeLibrary])
  IN [threw |-> ~Registered(datatypeLibrary, type), el |-> b.el, id |-> b.id]

\* Value.hasEmptyPattern / Empty.hasEmptyPattern
hasEmptyPattern(el) ==
  IF el.cls = "Value" THEN el.rawValue = <<>> ELSE TRUE

\* A call of the datatype without a context: no prefix resolves.
NoContext == [p \in Prefixes |-> Unbound]

\* A variant of the getter Value.value that parses under the first name
\* resolver there is, the document's.
Value_value_underDocument(h, p) ==
  LET el == h.pats[p]
      r == parseValue(el.type, el.rawValue,
                      IF needsContext(el.type) /\ h.resolvers # <<>>
                      THEN h.resolvers[1] ELSE NoContext)
  IN IF el.value # <<>>
     THEN [h |-> h, threw |-> FALSE, ret |-> el.value]
     ELSE IF r.threw
     THEN [h |-> h, threw |-> TRUE, ret |-> <<>>]
     ELSE [h |-> [h EXCEPT !.pats[p].value = r.value],
           threw |-> FALSE, ret |-> r.value]

\* The getter Value.value: the cached _value, or the raw value parsed (and
\* cached): where the datatype needs a context, under a new resolver that
\* maps the default prefix to the pattern's namespace, else without one.
\* threw: the parse raised, and nothing was stored.
Value_value(h, p) ==
  LET el == h.pats[p]
  IN IF el.value # <<>>
     THEN [h |-> h, threw |-> FALSE, ret |-> el.value]
     ELSE LET nr == IF needsContext(el.type)
                    THEN definePrefix(NewNameResolver, <<>>, el.ns)
                    ELSE NoContext
              r == parseValue(el.type, el.rawValue, nr)
          IN IF r.threw
             THEN [h |-> h, threw |-> TRUE, ret |-> <<>>]
             ELSE [h |-> [h EXCEPT !.pats[p].value = r.value],
                   threw |-> FALSE, ret |-> r.value]

(***************************************************************************)
(* Resolution and preparation.  _resolve(definitions) gives the patterns   *)
(* as it left them, what it returned (undefined, or the list of the Ref    *)
(* patterns it could not resolve) and the patterns it was called on, in    *)
(* the order of the calls; _prepare(namespaces) the namespaces and the     *)
(* patterns it was called on.  definitions[name] is Undefined where the    *)
(* map has no entry of that name.                                          *)
(***************************************************************************)
\* A value of type Ref[] | undefined.
NoRefs == [defined |-> FALSE, refs |-> <<>>]

Refs(list) == [defined |-> TRUE, refs |-> list]

RECURSIVE _resolve(_, _, _)

\* BasePattern._resolve
BasePattern__resolve(ps, p, definitions) ==
  [pats |-> ps, ret |-> NoRefs, visited |-> <<p>>]

\* OneSubpattern._resolve
OneSubpattern__resolve(ps, p, definitions) ==
  LET r == _resolve(ps, ps[p].pat, definitions)
  IN [r EXCEPT !.visited = <<p>> \o @]

\* A variant of TwoSubpatterns._resolve that forgets what the left
\* subpattern reported when the right one reports too.
TwoSubpatterns__resolve_rightOnly(ps, p, definitions) ==
  LET a == _resolve(ps, ps[p].patA, definitions)
      b == _resolve(a.pats, ps[p].patB, definitions)
  IN [pats |-> b.pats,
      ret |-> IF b.ret.defined THEN b.ret ELSE a.ret,
      visited |-> <<p>> \o a.visited \o b.visited]

\* TwoSubpatterns._resolve
TwoSubpatterns__resolve(ps, p, definitions) ==
  LET a == _resolve(ps, ps[p].patA, definitions)
      b == _resolve(a.pats, ps[p].patB, definitions)
  IN [pats |-> b.pats,
      ret |-> IF a.ret.defined /\ b.ret.defined
              THEN Refs(a.ret.refs \o b.ret.refs)
              ELSE IF a.ret.defined THEN a.ret
              ELSE b.ret,
      visited |-> <<p>> \o a.visited \o b.visited]

\* Variants of Ref._resolve: one that reports without binding, one that
\* goes on into the Define it found.
Ref__resolve_unbound(ps, p, definitions) ==
  [pats |-> ps,
   ret |-> IF definitions[ps[p].name] = Undefined THEN Refs(<<p>>)
           ELSE NoRefs,
   visited |-> <<p>>]

Ref__resolve_entering(ps, p, definitions) ==
  LET resolvesTo == definitions[ps[p].name]
  IN [pats |-> [ps EXCEPT ![p].resolvesTo = resolvesTo],
      ret |-> IF resolvesTo = Undefined THEN Refs(<<p>>) ELSE NoRefs,
      visited |-> IF resolvesTo = Undefined THEN <<p>>
                  ELSE <<p, resolvesTo>>]

\* Ref._resolve
Ref__resolve(ps, p, definitions) ==
  LET resolvesTo == definitions[ps[p].name]
  IN [pats |-> [ps EXCEPT ![p].resolvesTo = resolvesTo],
      ret |-> IF resolvesTo = Undefined THEN Refs(<<p>>) ELSE NoRefs,
      visited |-> <<p>>]

\* pattern._resolve(definitions), by the class of the pattern.
_resolve(ps, p, definitions) ==
  CASE ps[p].cls = "Ref" -> Ref__resolve(ps, p, definitions)
    [] ps[p].cls = "Define" -> OneSubpattern__resolve(ps, p, definitions)
    [] ps[p].cls = "TwoSubpatterns" ->
         TwoSubpatterns__resolve(ps, p, definitions)
    [] OTHER -> BasePattern__resolve(ps, p, definitions)

RECURSIVE _prepare(_, _, _)

\* BasePattern._prepare
BasePattern__prepare(ps, p, namespaces) ==
  [namespaces |-> namespaces, visited |-> <<p>>]

\* OneSubpattern._prepare
OneSubpattern__prepare(ps, p, namespaces) ==
  LET r == _prepare(ps, ps[p].pat, namespaces)
  IN [r EXCEPT !.visited = <<p>> \o @]

\* TwoSubpatterns._prepare
TwoSubpatterns__prepare(ps, p, namespaces) ==
  LET a == _prepare(ps, ps[p].patA, namespaces)
      b == _prepare(ps, ps[p].patB, a.namespaces)
  IN [namespaces |-> b.namespaces,
      visited |-> <<p>> \o a.visited \o b.visited]

\* Ref._prepare: returns at once.
Ref__prepare(ps, p, namespaces) ==
  [namespaces |-> namespaces, visited |-> <<p>>]

\* pattern._prepare(namespaces), by the class of the pattern.
_prepare(ps, p, namespaces) ==
  CASE ps[p].cls = "Ref" -> Ref__prepare(ps, p, namespaces)
    [] ps[p].cls = "Define" -> OneSubpattern__prepare(ps, p, namespaces)
    [] ps[p].cls = "TwoSubpatterns" ->
         TwoSubpatterns__prepare(ps, p, namespaces)
    [] OTHER -> BasePattern__prepare(ps, p, namespaces)

\* The walker created when the module empty.ts is loaded.
Singleton == 1

\* Walker.constructor: the fields of the base class, from a pattern ...
WalkerOfPattern(p) ==
  [cls |-> "", el |-> p, possibleCached |-> Undefined,
   suppressedAttributes |-> FALSE, matched |-> FALSE, canEnd |-> FALSE,
   canEndAttribute |-> FALSE, nameResolver |-> Undefined,
   context |-> Undefined, subwalker |-> Undefined]

\* A variant of Walker.constructor(other, memo) that does not take over the
\* pattern of the other walker.
WalkerOfWalker_elLost(other) ==
  [cls |-> "", el |-> Undefined, possibleCached |-> other.possibleCached,
   suppressedAttributes |-> other.suppressedAttributes, matched |-> FALSE,
   canEnd |-> FALSE, canEndAttribute |-> FALSE, nameResolver |-> Undefined,
   context |-> Undefined, subwalker |-> Undefined]

\* ... and from another walker.
WalkerOfWalker(other) ==
  [cls |-> "", el |-> other.el, possibleCached |-> other.possibleCached,
   suppressedAttributes |-> other.suppressedAttributes, matched |-> FALSE,
   canEnd |-> FALSE, canEndAttribute |-> FALSE, nameResolver |-> Undefined,
   context |-> Undefined, subwalker |-> Undefined]

\* A variant of EmptyWalker.constructor that lets the walker end outside
\* attributes only.
EmptyWalker_constructor_noAttributeEnd(base) ==
  [base EXCEPT !.cls = "Empty", !.canEnd = TRUE, !.canEndAttribute = FALSE]

\* EmptyWalker.constructor, both branches.
EmptyWalker_constructor(base) ==
  [base EXCEPT !.cls = "Empty", !.canEnd = TRUE, !.canEndAttribute = TRUE]

\* ValueWalker.constructor(el, nameResolver)
ValueWalker_new(h, p, nr) ==
  [WalkerOfPattern(p) EXCEPT
     !.cls = "Value",
     !.nameResolver = nr,
     !.context = IF needsContext(h.pats[p].type) THEN nr ELSE Undefined,
     !.matched = FALSE,
     !.canEnd = hasEmptyPattern(h.pats[p]),
     !.canEndAttribute = hasEmptyPattern(h.pats[p])]

\* Variants of Walker._cloneIfNeeded: one that hands the object itself out,
\* one that copies without a look at the memo.
Walker__cloneIfNeeded_same(h, obj, memo) ==
  [h |-> h, memo |-> memo, ret |-> obj]

Walker__cloneIfNeeded_unmemoised(h, obj, memo) ==
  [h |-> [h EXCEPT !.resolvers = Append(@, h.resolvers[obj])],
   memo |-> memo, ret |-> Len(h.resolvers) + 1]

\* Walker._cloneIfNeeded(obj, memo) for a name resolver: the copy the memo
\* holds, or a new copy (NameResolver.clone) that is added to the memo.
Walker__cloneIfNeeded(h, obj, memo) ==
  IF obj \in DOMAIN memo
  THEN [h |-> h, memo |-> memo, ret |-> memo[obj]]
  ELSE LET id == Len(h.resolvers) + 1
       IN [h |-> [h EXCEPT !.resolvers = Append(@, h.resolvers[obj])],
           memo |-> [o \in DOMAIN memo \cup {obj} |->
                       IF o = obj THEN id ELSE memo[o]],
           ret |-> id]

\* A variant of ValueWalker.constructor(other, memo) that does not copy the
\* progress of the walker: what copying matched and canEnd guarantees.
ValueWalker_copy_progressLost(h, w, memo) ==
  LET walker == h.walkers[w]
      c == Walker__cloneIfNeeded(h, walker.nameResolver, memo)
      copy == [WalkerOfWalker(walker) EXCEPT
                 !.cls = "Value",
                 !.nameResolver = c.ret,
                 !.context = IF walker.context # Undefined
                             THEN c.ret ELSE Undefined,
                 !.canEnd = hasEmptyPattern(h.pats[walker.el]),
                 !.canEndAttribute = hasEmptyPattern(h.pats[walker.el])]
  IN [h |-> [c.h EXCEPT !.walkers = Append(@, copy)], memo |-> c.memo,
      ret |-> Len(h.walkers) + 1]

\* A variant of ValueWalker.constructor(other, memo) whose copy cannot end
\* in attributes.
ValueWalker_copy_noAttributeEnd(h, w, memo) ==
  LET walker == h.walkers[w]
      c == Walker__cloneIfNeeded(h, walker.nameResolver, memo)
      copy == [WalkerOfWalker(walker) EXCEPT
                 !.cls = "Value",
                 !.nameResolver = c.ret,
                 !.context = IF walker.context # Undefined
                             THEN c.ret ELSE Undefined,
                 !.matched = walker.matched,
                 !.canEnd = walker.canEnd,
                 !.canEndAttribute = FALSE]
  IN [h |-> [c.h EXCEPT !.walkers = Append(@, copy)], memo |-> c.memo,
      ret |-> Len(h.walkers) + 1]

\* ValueWalker.constructor(other, memo)
ValueWalker_copy(h, w, memo) ==
  LET walker == h.walkers[w]
      c == Walker__cloneIfNeeded(h, walker.nameResolver, memo)
      copy == [WalkerOfWalker(walker) EXCEPT
                 !.cls = "Value",
                 !.nameResolver = c.ret,
                 !.context = IF walker.context # Undefined
                             THEN c.ret ELSE Undefined,
                 !.matched = walker.matched,
                 !.canEnd = walker.canEnd,
                 !.canEndAttribute = walker.canEndAttribute]
  IN [h |-> [c.h EXCEPT !.walkers = Append(@, copy)], memo |-> c.memo,
      ret |-> Len(h.walkers) + 1]

\* DefineWalker.constructor(walker, memo): the copy takes its id, then its
\* name resolver through the memo; its subwalker is set by Walker__clone.
DefineWalker_copy(h, w, memo) ==
  LET walker == h.walkers[w]
      c == Walker__cloneIfNeeded(h, walker.nameResolver, memo)
      copy == [WalkerOfWalker(walker) EXCEPT
                 !.cls = "Define", !.nameResolver = c.ret]
  IN [h |-> [c.h EXCEPT !.walkers = Append(@, copy)], memo |-> c.memo,
      ret |-> Len(h.walkers) + 1]

\* Walker._clone(memo): new (this.constructor)(this, memo).
RECURSIVE Walker__clone(_, _, _)
Walker__clone(h, w, memo) ==
  LET walker == h.walkers[w]
  IN CASE walker.cls = "Value" -> ValueWalker_copy(h, w, memo)
       [] walker.cls = "Empty" ->
            [h |-> [h EXCEPT !.walkers =
                      Append(@, EmptyWalker_constructor(WalkerOfWalker(walker)))],
             memo |-> memo, ret |-> Len(h.walkers) + 1]
       [] walker.cls = "Define" ->
            LET d == DefineWalker_copy(h, w, memo)
                s == Walker__clone(d.h, walker.subwalker, d.memo)
            IN [h |-> [s.h EXCEPT !.walkers[d.ret].subwalker = s.ret],
                memo |-> s.memo, ret |-> d.ret]

\* Walker.clone(): _clone with a new memo, which is dropped on return.
Walker_clone(h, w) ==
  LET r == Walker__clone(h, w, <<>>)
  IN [h |-> r.h, ret |-> r.ret]

\* A variant of EmptyWalker.clone() that copies, as Walker.clone() does.
EmptyWalker_clone_copying(h, w) == Walker_clone(h, w)

\* EmptyWalker.clone(): the walker itself.
EmptyWalker_clone(h, w) == [h |-> h, ret |-> w]

clone(h, w) ==
  IF h.walkers[w].cls = "Empty" THEN EmptyWalker_clone(h, w)
  ELSE Walker_clone(h, w)

\* Pattern.newWalker(resolver), as addWalker installs it; Empty overrides it,
\* and so does Ref, with the walker of the body of the Define it resolves to.
\* No walker is returned (ret is undefined) where the call raises: on a Ref
\* that is not resolved, and on a class that does not override newWalker.
RECURSIVE newWalker(_, _, _)

\* A variant of Ref.newWalker that returns a walker of the Define.
Ref_newWalker_ofDefine(h, p, nr) ==
  IF h.pats[p].resolvesTo = Undefined THEN [h |-> h, ret |-> Undefined]
  ELSE newWalker(h, h.pats[p].resolvesTo, nr)

\* Ref.newWalker(resolver); the call raises on a Ref that is not resolved.
Ref_newWalker(h, p, nr) ==
  IF h.pats[p].resolvesTo = Undefined THEN [h |-> h, ret |-> Undefined]
  ELSE newWalker(h, h.pats[h.pats[p].resolvesTo].pat, nr)

newWalker(h, p, nr) ==
  LET el == h.pats[p]
      id == Len(h.walkers) + 1
  IN CASE el.cls = "Empty" -> [h |-> h, ret |-> Singleton]
       [] el.cls = "Value" ->
            [h |-> [h EXCEPT !.walkers = Append(@, ValueWalker_new(h, p, nr))],
             ret |-> id]
       [] el.cls = "Define" ->
            LET d == [WalkerOfPattern(p) EXCEPT
                        !.cls = "Define", !.nameResolver = nr]
                s == newWalker([h EXCEPT !.walkers = Append(@, d)], el.pat, nr)
            IN IF s.ret = Undefined THEN [h |-> h, ret |-> Undefined]
               ELSE [h |-> [s.h EXCEPT !.walkers[id].subwalker = s.ret],
                     ret |-> id]
       [] el.cls = "Ref" -> Ref_newWalker(h, p, nr)
       [] OTHER -> [h |-> h, ret |-> Undefined]

\* The resolver a walker's context holds; none resolves nothing.
ContextOf(h, walker) ==
  IF walker.context = Undefined THEN [p \in Prefixes |-> Unbound]
  ELSE h.resolvers[walker.context]

\* Variants of ValueWalker.fireEvent: one that leaves canEnd as it was on a
\* match, one that leaves the cached possibilities in place.
ValueWalker_fireEvent_canEndKept(h, w, name, params) ==
  LET walker == h.walkers[w]
      el == h.pats[walker.el]
  IN IF walker.matched \/ ~IsStr(name, "text")
     THEN [h |-> h, ret |-> NoMatch]
     ELSE LET v == Value_value(h, walker.el)
          IN IF v.threw THEN [h |-> h, ret |-> Threw]
             ELSE IF ~equal(el.type, params[1], v.ret, ContextOf(h, walker))
             THEN [h |-> v.h, ret |-> NoMatch]
             ELSE [h |-> [v.h EXCEPT !.walkers[w].matched = TRUE,
                                     !.walkers[w].possibleCached = Undefined],
                   ret |-> Ok]

ValueWalker_fireEvent_cacheKept(h, w, name, params) ==
  LET walker == h.walkers[w]
      el == h.pats[walker.el]
  IN IF walker.matched \/ ~IsStr(name, "text")
     THEN [h |-> h, ret |-> NoMatch]
     ELSE LET v == Value_value(h, walker.el)
          IN IF v.threw THEN [h |-> h, ret |-> Threw]
             ELSE IF ~equal(el.type, params[1], v.ret, ContextOf(h, walker))
             THEN [h |-> v.h, ret |-> NoMatch]
             ELSE [h |-> [v.h EXCEPT !.walkers[w].matched = TRUE,
                                     !.walkers[w].canEnd = TRUE,
                                     !.walkers[w].canEndAttribute = TRUE],
                   ret |-> Ok]

\* A variant of ValueWalker.fireEvent that drops the cached possibilities
\* before it looks at the event.
ValueWalker_fireEvent_cacheDropped(h, w, name, params) ==
  LET walker == h.walkers[w]
      el == h.pats[walker.el]
      d == [h EXCEPT !.walkers[w].possibleCached = Undefined]
  IN IF walker.matched \/ ~IsStr(name, "text")
     THEN [h |-> d, ret |-> NoMatch]
     ELSE LET v == Value_value(d, walker.el)
          IN IF v.threw THEN [h |-> d, ret |-> Threw]
             ELSE IF ~equal(el.type, params[1], v.ret, ContextOf(h, walker))
             THEN [h |-> v.h, ret |-> NoMatch]
             ELSE [h |-> [v.h EXCEPT !.walkers[w].matched = TRUE,
                                     !.walkers[w].canEnd = TRUE,
                                     !.walkers[w].canEndAttribute = TRUE],
                   ret |-> Ok]

\* A variant of ValueWalker.fireEvent that does not look at matched.
ValueWalker_fireEvent_again(h, w, name, params) ==
  LET walker == h.walkers[w]
      el == h.pats[walker.el]
  IN IF ~IsStr(name, "text")
     THEN [h |-> h, ret |-> NoMatch]
     ELSE LET v == Value_value(h, walker.el)
          IN IF v.threw THEN [h |-> h, ret |-> Threw]
             ELSE IF ~equal(el.type, params[1], v.ret, ContextOf(h, walker))
             THEN [h |-> v.h, ret |-> NoMatch]
             ELSE [h |-> [v.h EXCEPT !.walkers[w].matched = TRUE,
                                     !.walkers[w].canEnd = TRUE,
                                     !.walkers[w].canEndAttribute = TRUE,
                                     !.walkers[w].possibleCached = Undefined],
                   ret |-> Ok]

\* ValueWalker.fireEvent(name, params)
ValueWalker_fireEvent(h, w, name, params) ==
  LET walker == h.walkers[w]
      el == h.pats[walker.el]
  IN IF walker.matched \/ ~IsStr(name, "text")
     THEN [h |-> h, ret |-> NoMatch]
     ELSE LET v == Value_value(h, walker.el)
          IN IF v.threw THEN [h |-> h, ret |-> Threw]
             ELSE IF ~equal(el.type, params[1], v.ret, ContextOf(h, walker))
             THEN [h |-> v.h, ret |-> NoMatch]
             ELSE [h |-> [v.h EXCEPT !.walkers[w].matched = TRUE,
                                     !.walkers[w].canEnd = TRUE,
                                     !.walkers[w].canEndAttribute = TRUE,
                                     !.walkers[w].possibleCached = Undefined],
                   ret |-> Ok]

\* A variant of EmptyWalker.fireEvent that accepts any text.
EmptyWalker_fireEvent_anyText(h, w, name, params) ==
  [h |-> h, ret |-> IF IsStr(name, "text") THEN Ok ELSE NoMatch]

\* EmptyWalker.fireEvent(name, params)
EmptyWalker_fireEvent(h, w, name, params) ==
  [h |-> h,
   ret |-> IF IsStr(name, "text") /\ ~HasNonSpace(params[1])
           THEN Ok ELSE NoMatch]

\* fireEvent by class.  SingleSubwalker.fireEvent(ev) hands its one argument
\* to the subwalker, which receives it as name, with params undefined.
RECURSIVE fireEvent(_, _, _, _)
fireEvent(h, w, name, params) ==
  LET walker == h.walkers[w]
  IN CASE walker.cls = "Value" -> ValueWalker_fireEvent(h, w, name, params)
       [] walker.cls = "Empty" -> EmptyWalker_fireEvent(h, w, name, params)
       [] walker.cls = "Define" -> fireEvent(h, walker.subwalker, name, <<>>)

\* A caller's call, with the arguments the walker's class declares.
callFireEvent(h, w, ev) ==
  IF h.walkers[w].cls = "Define"
  THEN fireEvent(h, w, EventArg(ev), <<>>)
  ELSE fireEvent(h, w, StrArg(Head(ev)), Tail(ev))

\* makeEventSet(...) / new EventSet(...): a new set object.
NewSet(h, evs) ==
  [h |-> [h EXCEPT !.sets = Append(@, evs)], ret |-> Len(h.sets) + 1]

\* The kinds of the compact events, which stand for several events.
CompactEvents == {"attributeNameAndValue", "startTagAndAttributes"}

\* A variant of ValueWalker._possible() that reports the value as the value
\* of an attribute, name and value in one event.
ValueWalker__possible_compact(h, w) ==
  LET walker == h.walkers[w]
      s == NewSet(h, IF walker.matched THEN {}
                     ELSE {Event("attributeNameAndValue",
                                 <<<<>>, <<"a">>, h.pats[walker.el].rawValue>>)})
  IN IF walker.possibleCached = Undefined
     THEN [h |-> [s.h EXCEPT !.walkers[w].possibleCached = s.ret],
           ret |-> s.ret]
     ELSE [h |-> h, ret |-> walker.possibleCached]

\* Event.isAttributeEvent()
isAttributeEvent(ev) == ev[1] = "attributeName" \/ ev[1] = "attributeValue"

\* A variant of ValueWalker._possible() that reports the value as the value
\* of an attribute.
ValueWalker__possible_attributeValue(h, w) ==
  LET walker == h.walkers[w]
      s == NewSet(h, IF walker.matched THEN {}
                     ELSE {Event("attributeValue",
                                 <<h.pats[walker.el].rawValue>>)})
  IN IF walker.possibleCached = Undefined
     THEN [h |-> [s.h EXCEPT !.walkers[w].possibleCached = s.ret],
           ret |-> s.ret]
     ELSE [h |-> h, ret |-> walker.possibleCached]

\* A variant of ValueWalker._possible() that offers the text whether or not
\* the walker has matched.
ValueWalker__possible_always(h, w) ==
  LET walker == h.walkers[w]
  IN IF walker.possibleCached = Undefined
     THEN LET s == NewSet(h, {Event("text", <<h.pats[walker.el].rawValue>>)})
          IN [h |-> [s.h EXCEPT !.walkers[w].possibleCached = s.ret],
              ret |-> s.ret]
     ELSE [h |-> h, ret |-> walker.possibleCached]

\* ValueWalker._possible()
ValueWalker__possible(h, w) ==
  LET walker == h.walkers[w]
  IN IF walker.possibleCached = Undefined
     THEN LET s == NewSet(h, IF walker.matched THEN {}
                             ELSE {Event("text", <<h.pats[walker.el].rawValue>>)})
          IN [h |-> [s.h EXCEPT !.walkers[w].possibleCached = s.ret],
              ret |-> s.ret]
     ELSE [h |-> h, ret |-> walker.possibleCached]

\* EmptyWalker._possible()
EmptyWalker__possible(h, w) ==
  LET walker == h.walkers[w]
  IN IF walker.possibleCached = Undefined
     THEN LET s == NewSet(h, {})
          IN [h |-> [s.h EXCEPT !.walkers[w].possibleCached = s.ret],
              ret |-> s.ret]
     ELSE [h |-> h, ret |-> walker.possibleCached]

\* A variant of EmptyWalker.possible() that reports the empty event.
EmptyWalker_possible_emptyEvent(h, w) == NewSet(h, {emptyEvent})

\* EmptyWalker.possible()
EmptyWalker_possible(h, w) == NewSet(h, {})

\* A variant of Walker.possible() that hands out what _possible returns.
Walker_possible_uncopied(h, r) == [h |-> r.h, ret |-> r.ret]

\* Walker.possible(): a copy of what _possible returns.
Walker_possible(h, r) == NewSet(r.h, r.h.sets[r.ret])

\* possible() and _possible() by class; SingleSubwalker._possible() is the
\* subwalker's possible().
RECURSIVE possible(_, _)
possible(h, w) ==
  LET walker == h.walkers[w]
  IN CASE walker.cls = "Empty" -> EmptyWalker_possible(h, w)
       [] walker.cls = "Value" -> Walker_possible(h, ValueWalker__possible(h, w))
       [] walker.cls = "Define" ->
            Walker_possible(h, possible(h, walker.subwalker))

\* An error of end(): "value required: <raw value>".
ValueRequired(raw) == <<"value required", raw>>

\* A variant of ValueWalker.end that reports nothing for attributes.
ValueWalker_end_attributesPass(h, w, attribute) ==
  LET walker == h.walkers[w]
  IN IF walker.canEnd \/ attribute THEN [ret |-> Ok, errors |-> <<>>]
     ELSE [ret |-> "Errors",
           errors |-> <<ValueRequired(h.pats[walker.el].rawValue)>>]

\* ValueWalker.end(attribute)
ValueWalker_end(h, w, attribute) ==
  LET walker == h.walkers[w]
  IN IF walker.canEnd THEN [ret |-> Ok, errors |-> <<>>]
     ELSE [ret |-> "Errors",
           errors |-> <<ValueRequired(h.pats[walker.el].rawValue)>>]

\* Walker.end(attribute), which EmptyWalker inherits.
Walker_end(h, w, attribute) == [ret |-> Ok, errors |-> <<>>]

\* end by class; SingleSubwalker.end is the subwalker's.
RECURSIVE end(_, _, _)
end(h, w, attribute) ==
  LET walker == h.walkers[w]
  IN CASE walker.cls = "Value" -> ValueWalker_end(h, w, attribute)
       [] walker.cls = "Empty" -> Walker_end(h, w, attribute)
       [] walker.cls = "Define" -> end(h, walker.subwalker, attribute)

\* What a caller learns from canEnd: the field of a leaf walker (canEnd, or
\* canEndAttribute while processing attributes); on a Define
\* walker SingleSubwalker.canEnd(attribute) calls the subwalker's canEnd,
\* which raises when that is a leaf's boolean field.
RECURSIVE canEnd(_, _, _)
canEnd(h, w, attribute) ==
  LET walker == h.walkers[w]
  IN IF walker.cls = "Define"
     THEN (IF h.walkers[walker.subwalker].cls = "Define"
           THEN canEnd(h, walker.subwalker, attribute) ELSE Threw)
     ELSE IF (IF attribute THEN walker.canEndAttribute ELSE walker.canEnd)
          THEN "true" ELSE "false"

\* walker._suppressAttributes(): the heap it leaves and the walkers it was
\* called on, in the order of the calls.
RECURSIVE suppressAttributes(_, _)

\* A variant of SingleSubwalker._suppressAttributes that sets the flag and
\* leaves the subwalker alone.
SingleSubwalker__suppressAttributes_unforwarded(h, w) ==
  [h |-> [h EXCEPT !.walkers[w].suppressedAttributes = TRUE], calls |-> <<w>>]

\* SingleSubwalker._suppressAttributes: sets its flag and forwards, once.
SingleSubwalker__suppressAttributes(h, w) ==
  IF ~h.walkers[w].suppressedAttributes
  THEN LET s == suppressAttributes(
                  [h EXCEPT !.walkers[w].suppressedAttributes = TRUE],
                  h.walkers[w].subwalker)
       IN [h |-> s.h, calls |-> <<w>> \o s.calls]
  ELSE [h |-> h, calls |-> <<w>>]

\* A variant of _suppressAttributes in which a leaf walker sets its flag
\* and drops its cached possibilities.
suppressAttributes_onLeaves(h, w) ==
  IF h.walkers[w].cls = "Define" THEN SingleSubwalker__suppressAttributes(h, w)
  ELSE [h |-> [h EXCEPT !.walkers[w].suppressedAttributes = TRUE,
                        !.walkers[w].possibleCached = Undefined],
        calls |-> <<w>>]

\* _suppressAttributes by class: nothing on the leaves.
suppressAttributes(h, w) ==
  IF h.walkers[w].cls = "Define" THEN SingleSubwalker__suppressAttributes(h, w)
  ELSE [h |-> h, calls |-> <<w>>]

(***************************************************************************)
(* State.                                                                  *)
(***************************************************************************)
VARIABLES
  pats,       \* the patterns: the singleton's, then the schema's
  walkers,    \* every walker created so far, by id
  resolvers,  \* name resolvers; the first is the document's
  sets,       \* the event-set objects that are still referenced
  roots,      \* the walkers the caller holds
  consumed,   \* history: the leaf walkers that accepted a text
  events,     \* every Event object created so far
  Event_cache,  \* Event.__cache: the Event object of each key
  Event_id,   \* Event.__id: the next id
  made,       \* history: what each construction of an Event returned
  definitions,  \* the definition map of the grammar: the Define of a name
  resolved,   \* history: the trees _resolve ran over, and what it returned
  prepared,   \* history: the trees _prepare ran over
  Pattern_id, \* Pattern.__id: the next id
  raised      \* history: the constructions of a Value that raised

eventVars == <<events, Event_cache, Event_id, made>>

grammarVars == <<definitions, resolved, prepared>>

constructVars == <<Pattern_id, raised>>

vars == <<pats, walkers, resolvers, sets, roots, consumed, eventVars,
          grammarVars, constructVars>>

Heap == [pats |-> pats, walkers |-> walkers, resolvers |-> resolvers,
         sets |-> sets]

\* The names of definitions.
Names == {"d", "e"}

\* The definition map of a grammar: each name with the Define of that name.
DefinitionsOf(ps) ==
  [n \in Names |->
     IF \E p \in 1..Len(ps) : ps[p].cls = "Define" /\ ps[p].name = n
     THEN CHOOSE p \in 1..Len(ps) : ps[p].cls = "Define" /\ ps[p].name = n
     ELSE Undefined]

\* Before any Event is constructed.
NoEvents ==
  /\ events = <<>>
  /\ Event_cache = <<>>
  /\ Event_id = 0
  /\ made = {}

EventHeap == [events |-> events, cache |-> Event_cache, id |-> Event_id]

\* The resolver the caller passes to newWalker.
DocResolver == 1

\* The schema's start pattern, the last one constructed.
Start == Len(pats)

\* The leaf at the end of a walker's chain of subwalkers.
RECURSIVE Leaf(_, _)
Leaf(ws, w) ==
  IF ws[w].subwalker = Undefined THEN w ELSE Leaf(ws, ws[w].subwalker)

\* Set objects nobody references are collected and the others renumbered in
\* the order of the walkers that reference them.
Collect(h) ==
  LET n == Len(h.walkers)
      live == {h.walkers[i].possibleCached : i \in 1..n} \ {Undefined}
      first(id) == CHOOSE i \in 1..n :
                     /\ h.walkers[i].possibleCached = id
                     /\ \A j \in 1..(i - 1) : h.walkers[j].possibleCached # id
      newId(id) == Cardinality({j \in live : first(j) < first(id)}) + 1
  IN IF live = 1..Len(h.sets) /\ \A a, b \in live : a < b => first(a) < first(b)
     THEN h
     ELSE [h EXCEPT
             !.sets = [k \in 1..Cardinality(live) |->
                         h.sets[CHOOSE id \in live : newId(id) = k]],
             !.walkers = [i \in 1..n |->
                            [h.walkers[i] EXCEPT
                               !.possibleCached =
                                 IF @ = Undefined THEN Undefined ELSE newId(@)]]]

\* The state after a call: the heap it left and what the caller holds.
Commit(h, rs, cons) ==
  LET c == Collect(h)
  IN /\ pats' = c.pats
     /\ walkers' = c.walkers
     /\ resolvers' = c.resolvers
     /\ sets' = c.sets
     /\ roots' = rs
     /\ consumed' = cons
     /\ UNCHANGED <<eventVars, grammarVars, constructVars>>

\* The Value patterns of the schemas; a namespace is declared only where the
\* datatype reads it.
ValuePatterns ==
  {v \in {ValuePattern(raw, type, ns) :
            raw \in RawValues, type \in Types, ns \in Uris} :
     v.ns = "" \/ needsContext(v.type)}

\* The schemas: an Empty pattern or a Value pattern, as the body of a Define
\* or alone; the start pattern is the last.  Before them, the Empty pattern
\* of the singleton walker.
DefineSchemas ==
  {<<EmptyPattern, b, DefinePattern("d", 2)>> :
     b \in {EmptyPattern} \cup ValuePatterns}

LeafSchemas == {<<EmptyPattern, b>> : b \in {EmptyPattern} \cup ValuePatterns}

\* Schemas whose start pattern is a Ref, after resolution: a Ref to a Define
\* of an Empty or of a Value pattern, and a Ref to a Define of such a Ref.
ResolvedRef(name, define) == [RefPattern(name) EXCEPT !.resolvesTo = define]

RefSchemas ==
  LET direct == {<<EmptyPattern, b, DefinePattern("d", 2), ResolvedRef("d", 3)>> :
                   b \in {EmptyPattern, ValuePattern(<<"a">>, "token", "")}}
  IN direct \cup {r \o <<DefinePattern("e", 4), ResolvedRef("e", 5)>> :
                    r \in direct}

\* A schema whose start pattern is a Define of a Define.
NestedSchemas ==
  {<<EmptyPattern, ValuePattern(<<"a">>, "token", ""), DefinePattern("d", 2),
     DefinePattern("e", 3)>>}

Init ==
  /\ \/ pats \in {Constructed(s) : s \in DefineSchemas}
     \/ pats \in {Constructed(s) : s \in LeafSchemas}
     \/ pats \in {Constructed(s) : s \in RefSchemas}
     \/ pats \in {Constructed(s) : s \in NestedSchemas}
  /\ walkers = <<EmptyWalker_constructor(WalkerOfPattern(1))>>
  /\ resolvers = <<NewNameResolver>>
  /\ sets = <<>>
  /\ roots = {}
  /\ consumed = {}
  /\ NoEvents
  /\ definitions = DefinitionsOf(pats)
  /\ resolved = {}
  /\ prepared = {}
  /\ Pattern_id = Len(pats)
  /\ raised = {}

\* start.newWalker(resolver)
NewWalker ==
  LET r == newWalker(Heap, Start, DocResolver)
  IN /\ r.ret # Undefined
     /\ Cardinality(roots \cup {r.ret}) <= MaxRoots
     /\ Commit(r.h, roots \cup {r.ret}, consumed)

\* walker.fireEvent(...)
FireEvent(w, ev) ==
  LET r == callFireEvent(Heap, w, ev)
      leaf == Leaf(walkers, w)
  IN Commit(r.h, roots, IF r.ret = Ok THEN consumed \cup {leaf} ELSE consumed)

\* What a caller does to a set it was given: nothing, or it replaces the
\* events in it.
Edits == {"keep", "replace"}

Edited(h, set, edit) ==
  CASE edit = "keep" -> h
    [] edit = "replace" -> [h EXCEPT !.sets[set] = {emptyEvent}]

\* walker.possible(); the caller uses the set returned as its own.
Possible(w, edit) ==
  LET r == possible(Heap, w)
  IN Commit(Edited(r.h, r.ret, edit), roots, consumed)

\* walker.end(attribute): no state changes.
End(w, attribute) ==
  /\ end(Heap, w, attribute).ret \in {Ok, "Errors"}
  /\ Commit(Heap, roots, consumed)

\* walker._suppressAttributes()
SuppressAttributes(w) ==
  Commit(suppressAttributes(Heap, w).h, roots, consumed)

\* The pairs <<walker, copy>> of a cloned tree.
RECURSIVE Copies(_, _, _)
Copies(ws, w, c) ==
  {<<w, c>>} \cup (IF ws[w].subwalker = Undefined THEN {}
                   ELSE Copies(ws, ws[w].subwalker, ws[c].subwalker))

\* walker.clone()
Clone(w) ==
  LET r == clone(Heap, w)
      copies == IF r.ret = w THEN {} ELSE Copies(r.h.walkers, w, r.ret)
  IN /\ Cardinality(roots \cup {r.ret}) <= MaxRoots
     /\ Commit(r.h, roots \cup {r.ret},
               consumed \cup {x[2] : x \in {y \in copies : y[1] \in consumed}})

\* The caller maps the default prefix in the document's resolver, where the
\* schema has a value that is read under a resolver.
DefinePrefix(prefix, uri) ==
  /\ \E p \in 2..Len(pats) : pats[p].cls = "Value" /\ needsContext(pats[p].type)
  /\ resolvers[DocResolver][prefix] # uri
  /\ Commit([Heap EXCEPT !.resolvers[DocResolver] = definePrefix(@, prefix, uri)],
            roots, consumed)

Next ==
  \/ NewWalker
  \/ \E w \in roots, ev \in FewEvents : FireEvent(w, ev)
  \/ \E w \in roots, edit \in Edits : Possible(w, edit)
  \/ \E w \in roots, attribute \in BOOLEAN : End(w, attribute)
  \/ \E w \in roots : SuppressAttributes(w)
  \/ \E w \in roots : Clone(w)
  \/ \E uri \in Uris : DefinePrefix(<<>>, uri)

Spec == Init /\ [][Next]_vars

(***************************************************************************)
(* What a caller observes.                                                 *)
(***************************************************************************)
WalkerIds == 1..Len(walkers)

\* The events of the set that possible() returns.
Possibilities(h, w) ==
  LET r == possible(h, w)
  IN r.h.sets[r.ret]

\* The observable state of a walker: possible(), canEnd and end's result.
Observable(h, w) ==
  [possible |-> Possibilities(h, w),
   canEnd |-> [a \in BOOLEAN |-> canEnd(h, w, a)],
   end |-> [a \in BOOLEAN |-> end(h, w, a)]]

\* The heap with every walker's cache dropped: what is computed from the
\* walkers' state alone.
NoCaches(h) ==
  [h EXCEPT !.walkers =
     [i \in 1..Len(h.walkers) |->
        [h.walkers[i] EXCEPT !.possibleCached = Undefined]]]

\* The calls a caller makes on a walker, and the heap each leaves.
Ops ==
  [op : {"fireEvent"}, ev : FewEvents, edit : {"keep"}]
    \cup [op : {"possible"}, ev : {emptyEvent}, edit : Edits]
    \cup [op : {"end", "suppressAttributes", "clone"}, ev : {emptyEvent},
          edit : {"keep"}]

Apply(h, w, o) ==
  CASE o.op = "fireEvent" -> callFireEvent(h, w, o.ev).h
    [] o.op = "possible" -> LET r == possible(h, w) IN Edited(r.h, r.ret, o.edit)
    [] o.op = "end" -> h
    [] o.op = "suppressAttributes" -> suppressAttributes(h, w).h
    [] o.op = "clone" -> clone(h, w).h

(***************************************************************************)
(* Claims.                                                                 *)
(***************************************************************************)

\* C1: a Value walker's canEnd is true exactly when the walker has accepted
\* a text or the pattern's raw value is the empty string; so a walker that
\* consumed a text valid against its pattern can end.
C1_CanEndIffMatchedOrEmpty ==
  \A w \in WalkerIds :
    walkers[w].cls = "Value" =>
      /\ walkers[w].canEnd <=>
           (w \in consumed \/ pats[walkers[w].el].rawValue = <<>>)
      /\ w \in consumed => end(Heap, w, FALSE).ret = Ok

\* C1, its case: a walker of a pattern whose raw value is not empty has
\* accepted a text, and can end.
C1_Witness ==
  \E w \in WalkerIds :
    /\ walkers[w].cls = "Value"
    /\ pats[walkers[w].el].rawValue # <<>>
    /\ w \in consumed
    /\ walkers[w].canEnd

\* The pattern's stored value: the raw value parsed under a resolver that
\* maps the default prefix to the pattern's namespace; <<>> if it has none.
StoredValue(el) ==
  parseValue(el.type, el.rawValue, definePrefix(NewNameResolver, <<>>, el.ns)).value

\* C2: ValueWalker.fireEvent returns Ok exactly when the walker is unmatched,
\* the kind is text and the datatype's equal holds between params[0] and the
\* pattern's stored value, under the walker's own name resolver when (and
\* only when) the datatype needs context; otherwise it returns NoMatch.
C2_FireEventResult ==
  \A w \in WalkerIds, ev \in InputEvents :
    walkers[w].cls = "Value" =>
      LET walker == walkers[w]
          el == pats[walker.el]
          ctx == IF needsContext(el.type) THEN resolvers[walker.nameResolver]
                 ELSE [p \in Prefixes |-> Unbound]
          accepts == /\ ~walker.matched
                     /\ Head(ev) = "text"
                     /\ equal(el.type, ev[2], StoredValue(el), ctx)
      IN callFireEvent(Heap, w, ev).ret = IF accepts THEN Ok ELSE NoMatch

\* C3: every event of W.possible(), fired on a clone of W, returns Ok.
C3_PossibleIsAccepted ==
  \A w \in roots :
    \A e \in Possibilities(Heap, w) :
      LET c == clone(Heap, w)
      IN callFireEvent(c.h, c.ret, e).ret = Ok

\* C4: firing an event on a clone of W returns what firing it on W returns
\* and leaves the clone in the observable state it would leave W in, with W
\* untouched; and no call on another walker the caller holds (a clone of W
\* among them) changes W's observable state.
C4_CloneCommutes ==
  \A w \in roots :
    /\ \A ev \in FewEvents :
         LET c == clone(Heap, w)
             onClone == callFireEvent(c.h, c.ret, ev)
             onW == callFireEvent(Heap, w, ev)
         IN /\ onClone.ret = onW.ret
            /\ Observable(onClone.h, c.ret) = Observable(onW.h, w)
            /\ c.ret # w => Observable(onClone.h, w) = Observable(Heap, w)
    /\ \A c \in roots \ {w}, o \in Ops :
         Observable(Apply(Heap, c, o), w) = Observable(Heap, w)

\* C4, its case: the caller holds a matched Value walker and a copy of a
\* Value walker (a copy has a name resolver of its own), one unmatched.
C4_Witness ==
  \E w, c \in roots :
    /\ walkers[w].cls = "Value" /\ walkers[c].cls = "Value"
    /\ walkers[c].nameResolver # DocResolver
    /\ walkers[w].matched # walkers[c].matched

\* C5: two _clone calls on one walker with one memo yield the same copy.
C5_SameCopyWithinMemo ==
  \A w \in roots :
    LET a == Walker__clone(Heap, w, <<>>)
        b == Walker__clone(a.h, w, a.memo)
    IN a.ret = b.ret

\* C6: a walker's cached possibility set is absent or equal to the set
\* computed from the walker's current state (a copy's inherited cache too),
\* so possible() never returns a stale set.
C6_CacheCoherent ==
  \A w \in WalkerIds :
    /\ walkers[w].possibleCached # Undefined =>
         sets[walkers[w].possibleCached] = Possibilities(NoCaches(Heap), w)
    /\ Possibilities(Heap, w) = Possibilities(NoCaches(Heap), w)

\* C6, its case: a Value walker was queried after its matching text, and
\* another walker inherited the cache it holds.
C6_Witness ==
  \E w, c \in WalkerIds :
    /\ w # c
    /\ walkers[w].cls = "Value"
    /\ w \in consumed
    /\ walkers[w].possibleCached # Undefined
    /\ walkers[c].possibleCached = walkers[w].possibleCached

\* C7: possible() returns a new set each time, never a cache; whatever the
\* caller does to the set changes no walker, no cache and no later result
\* of possible() on any walker (subwalkers and copies among them).
C7_PossibleIsCallerOwned ==
  \A w \in WalkerIds, edit \in Edits :
    LET r == possible(Heap, w)
        again == possible(r.h, w)
        e == Edited(r.h, r.ret, edit)
    IN /\ r.ret \notin DOMAIN sets
       /\ again.ret # r.ret
       /\ \A x \in WalkerIds :
            /\ r.h.walkers[x].possibleCached # r.ret
            /\ e.walkers[x] = r.h.walkers[x]
            /\ r.h.walkers[x].possibleCached # Undefined =>
                 e.sets[r.h.walkers[x].possibleCached]
                   = r.h.sets[r.h.walkers[x].possibleCached]
            /\ Possibilities(e, x) = Possibilities(r.h, x)

\* C7, its case: a Define walker's subwalker holds a cache since a call of
\* possible(), and the subwalker of a copy holds the same cache.
C7_Witness ==
  \E d, c \in roots :
    /\ d # c
    /\ walkers[d].cls = "Define" /\ walkers[c].cls = "Define"
    /\ walkers[walkers[d].subwalker].possibleCached # Undefined
    /\ walkers[walkers[c].subwalker].possibleCached
         = walkers[walkers[d].subwalker].possibleCached

\* C8: fireEvent raises no exception, whatever the walker and the event.
C8_FireEventNeverThrows ==
  \A w \in roots, ev \in InputEvents : callFireEvent(Heap, w, ev).ret # Threw

C10_EmptyPossible ==
  \A w \in WalkerIds :
    walkers[w].cls = "Empty" =>
      /\ Possibilities(Heap, w) = {}
      /\ LET r == EmptyWalker__possible(Heap, w) IN r.h.sets[r.ret] = {}

\* C10, its case: an Empty walker under a Define walker that was copied
\* and had its attributes suppressed.
C10_Witness ==
  \E d \in roots :
    /\ walkers[d].cls = "Define"
    /\ walkers[d].suppressedAttributes
    /\ walkers[d].nameResolver # DocResolver
    /\ walkers[walkers[d].subwalker].cls = "Empty"
    /\ walkers[d].subwalker # Singleton

\* C11: an Empty walker can always end: canEnd and canEndAttribute are true
\* and end() returns Ok, with attribute true and with attribute false.
C11_EmptyCanAlwaysEnd ==
  \A w \in WalkerIds :
    walkers[w].cls = "Empty" =>
      /\ walkers[w].canEnd
      /\ walkers[w].canEndAttribute
      /\ \A attribute \in BOOLEAN :
           end(Heap, w, attribute) = [ret |-> Ok, errors |-> <<>>]

\* C11, its case: the Empty walker accepted a text and can still end.
C11_Witness ==
  /\ Singleton \in consumed
  /\ walkers[Singleton].canEnd /\ walkers[Singleton].canEndAttribute

\* C12: the Empty walker is a singleton: newWalker on any Empty pattern,
\* with any resolver, returns the one walker made when the module is loaded
\* and makes no other; clone() on it returns it; so every Empty walker a
\* caller is given by newWalker or clone() is that walker.
C12_EmptySingleton ==
  /\ \A p \in 1..Len(pats), nr \in {Undefined} \cup (1..Len(resolvers)) :
       pats[p].cls = "Empty" =>
         newWalker(Heap, p, nr) = [h |-> Heap, ret |-> Singleton]
  /\ clone(Heap, Singleton) = [h |-> Heap, ret |-> Singleton]
  /\ \A w \in roots : walkers[w].cls = "Empty" => w = Singleton

\* C12, its case: newWalker on an Empty pattern of the schema, which is not
\* the pattern the singleton was made for, gave the caller the singleton.
C12_Witness ==
  /\ pats[Start].cls = "Empty"
  /\ Singleton \in roots
  /\ walkers[Singleton].el # Start

\* The pattern whose walker P.newWalker returns: P itself, but for a Ref the
\* body of the Define it resolves to (or what that body leads to).
RECURSIVE Origin(_, _)
Origin(ps, p) ==
  IF ps[p].cls = "Ref" THEN Origin(ps, ps[ps[p].resolvesTo].pat) ELSE p

\* No call on a walker changes the pattern any walker refers to, and a copy
\* refers to the pattern of the walker it was copied from.
PatternKept ==
  \A w \in WalkerIds :
    /\ \A o \in Ops, x \in WalkerIds :
         Apply(Heap, w, o).walkers[x].el = walkers[x].el
    /\ LET c == Walker__clone(Heap, w, <<>>)
       IN c.h.walkers[c.ret].el = walkers[w].el

\* C13 as stated: for every pattern P the walker that P.newWalker returns
\* refers to P, and the reference never changes under fireEvent or clone.
C13_WalkerRefersToItsPattern ==
  /\ \A p \in 1..Len(pats) :
       LET r == newWalker(Heap, p, DocResolver)
       IN r.h.walkers[r.ret].el = p
  /\ PatternKept

\* C13 amended: for every pattern P that is neither an Empty nor a Ref the
\* walker that P.newWalker returns refers to P; on an Empty pattern it is
\* the singleton, which refers to the Empty pattern it was made for; on a
\* Ref it is a walker of the body of the Define the Ref resolves to; and
\* the reference never changes under any call, nor in a copy.
C13_WalkerRefersToItsOrigin ==
  /\ \A p \in 1..Len(pats) :
       LET r == newWalker(Heap, p, DocResolver)
           el == r.h.walkers[r.ret].el
       IN CASE pats[p].cls = "Empty" -> r.ret = Singleton /\ el = 1
            [] pats[p].cls = "Ref" ->
                 el = IF pats[Origin(pats, p)].cls = "Empty" THEN 1
                      ELSE Origin(pats, p)
            [] OTHER -> el = p
  /\ PatternKept
  /\ \A w \in WalkerIds : pats[walkers[w].el].cls = walkers[w].cls

\* C13, its case: the walker of a schema that starts with a Ref accepted a
\* text, and the caller holds a copy of a walker.
C13_Witness ==
  /\ pats[Start].cls = "Ref"
  /\ \E w, c \in roots :
       /\ w \in consumed
       /\ walkers[w].el = Origin(pats, Start)
       /\ walkers[c].nameResolver # DocResolver
       /\ walkers[c].el = walkers[w].el

(***************************************************************************)
(* The construction of events, on its own: no pattern, no walker.          *)
(***************************************************************************)
InitEvent ==
  /\ pats = <<>>
  /\ walkers = <<>>
  /\ resolvers = <<>>
  /\ sets = <<>>
  /\ roots = {}
  /\ consumed = {}
  /\ NoEvents
  /\ definitions = DefinitionsOf(pats)
  /\ resolved = {}
  /\ prepared = {}
  /\ Pattern_id = Len(pats)
  /\ raised = {}

\* new Event(...) by any caller.
NewEvent(args) ==
  LET r == Event_constructor(EventHeap, args)
      params == IF "list" \in DOMAIN args THEN args.list ELSE args.spread
  IN /\ Len(r.ev.events) <= MaxEvents
     /\ events' = r.ev.events
     /\ Event_cache' = r.ev.cache
     /\ Event_id' = r.ev.id
     /\ made' = made \cup {[params |-> params, event |-> r.ret,
                            id |-> r.ev.events[r.ret].id]}
     /\ UNCHANGED <<pats, walkers, resolvers, sets, roots, consumed,
                    grammarVars, constructVars>>

NextEvent ==
  \E params \in ParamLists :
    \/ NewEvent(Spread(params))
    \/ NewEvent(List(params))

SpecEvent == InitEvent /\ [][NextEvent]_vars

\* C14: constructing an Event with the parameters of an earlier construction
\* returns the object that one returned, with the id it had then, whatever
\* was constructed in between and however the parameters are passed, and
\* creates no Event.
C14_EventsInterned ==
  \A m \in made : \A args \in {Spread(m.params), List(m.params)} :
    LET r == Event_constructor(EventHeap, args)
    IN /\ r.ret = m.event
       /\ r.ev.events[r.ret].id = m.id
       /\ r.ev = EventHeap

\* C14, its case: an event was constructed, then an event of other parameters
\* and another key, then the first again.
C14_Witness ==
  \E m, n \in made :
    /\ m.params # n.params
    /\ m.event = 1 /\ n.event = 2
    /\ Len(events) = 2
    /\ Cardinality(made) = 2

\* C15: on a resolved Ref, newWalker(resolver) returns what newWalker returns
\* for the same resolver on the body of the Define that the Ref resolved to:
\* a walker of the first pattern, along the chain of bodies, that is not a
\* Ref; never a walker for the Ref or for the Define.
C15_RefNewWalker ==
  \A p \in 1..Len(pats), nr \in {Undefined} \cup (1..Len(resolvers)) :
    pats[p].cls = "Ref" /\ pats[p].resolvesTo # Undefined =>
      LET define == pats[p].resolvesTo
          r == newWalker(Heap, p, nr)
          walker == r.h.walkers[r.ret]
      IN /\ pats[define].cls = "Define" /\ pats[define].name = pats[p].name
         /\ r = newWalker(Heap, pats[define].pat, nr)
         /\ r.ret # Undefined
         /\ walker.cls = pats[Origin(pats, p)].cls
         /\ walker.cls \notin {"Ref", "Define"}
         /\ walker.el \notin {p, define}
         /\ walker.cls # "Empty" =>
              walker.el = Origin(pats, p) /\ walker.nameResolver = nr

\* C15, its case: the start pattern is a Ref to a Define of a Ref, and the
\* walker it gave is a walker of the Value at the end of the chain.
C15_Witness ==
  /\ pats[Start].cls = "Ref"
  /\ pats[pats[pats[Start].resolvesTo].pat].cls = "Ref"
  /\ \E w \in roots : walkers[w].cls = "Value" /\ walkers[w].el = 2

(***************************************************************************)
(* The grammar before any walker: its trees are resolved, then prepared.   *)
(* A grammar is the trees of its definitions, then the tree of its start   *)
(* pattern; definitions refer to each other and to themselves.             *)
(***************************************************************************)
\* No definition, the definition d, or the definitions d and e.
DefineTrees ==
  LET d == {<<b, DefinePattern("d", 1)>> :
              b \in {RefPattern("d"), RefPattern("e")}}
      e == {<<b, DefinePattern("e", 3)>> :
              b \in {RefPattern("d"), EmptyPattern}}
  IN {<<>>} \cup d \cup {x \o y : x \in d, y \in e}

\* The tree of the start pattern, its first pattern after k others.
StartTrees(k) ==
  LET leaves == {RefPattern("d"), RefPattern("e"), EmptyPattern}
  IN {<<l1, l2, l3, TwoSubpatterns(k + 1, k + 2), TwoSubpatterns(k + 4, k + 3)>> :
        l1 \in leaves, l2 \in leaves, l3 \in leaves}
     \cup
     {<<l1, l2, l3, TwoSubpatterns(k + 2, k + 3), TwoSubpatterns(k + 1, k + 4)>> :
        l1 \in leaves, l2 \in leaves, l3 \in leaves}

Grammars == UNION {{ds \o t : t \in StartTrees(Len(ds))} : ds \in DefineTrees}

\* The trees of a grammar: that of the start pattern, those of definitions.
TreeRoots ==
  {Start} \cup {definitions[n] : n \in {m \in Names : definitions[m] # Undefined}}

InitResolve ==
  /\ pats \in {Constructed(g) : g \in Grammars}
  /\ walkers = <<>>
  /\ resolvers = <<>>
  /\ sets = <<>>
  /\ roots = {}
  /\ consumed = {}
  /\ NoEvents
  /\ definitions = DefinitionsOf(pats)
  /\ resolved = {}
  /\ prepared = {}
  /\ Pattern_id = Len(pats)
  /\ raised = {}

\* root._resolve(definitions)
Resolve(root) ==
  LET r == _resolve(pats, root, definitions)
  IN /\ pats' = r.pats
     /\ resolved' = resolved \cup {[root |-> root, ret |-> r.ret]}
     /\ UNCHANGED <<walkers, resolvers, sets, roots, consumed, eventVars,
                    definitions, prepared, constructVars>>

\* root._prepare(namespaces), after resolution.
Prepare(root) ==
  /\ \E x \in resolved : x.root = root
  /\ prepared' = prepared \cup {root}
  /\ UNCHANGED <<pats, walkers, resolvers, sets, roots, consumed, eventVars,
                 definitions, resolved, constructVars>>

NextResolve ==
  \/ \E root \in TreeRoots : Resolve(root)
  \/ \E root \in TreeRoots : Prepare(root)

SpecResolve == InitResolve /\ [][NextResolve]_vars

\* The patterns of a tree, and its Ref patterns from left to right; a Ref
\* is a leaf of the tree.
RECURSIVE Tree(_, _)
Tree(ps, p) ==
  {p} \cup (IF ps[p].pat = Undefined THEN {} ELSE Tree(ps, ps[p].pat))
      \cup (IF ps[p].patA = Undefined THEN {} ELSE Tree(ps, ps[p].patA))
      \cup (IF ps[p].patB = Undefined THEN {} ELSE Tree(ps, ps[p].patB))

RECURSIVE RefsOf(_, _)
RefsOf(ps, p) ==
  (IF ps[p].cls = "Ref" THEN <<p>> ELSE <<>>)
    \o (IF ps[p].pat = Undefined THEN <<>> ELSE RefsOf(ps, ps[p].pat))
    \o (IF ps[p].patA = Undefined THEN <<>> ELSE RefsOf(ps, ps[p].patA))
    \o (IF ps[p].patB = Undefined THEN <<>> ELSE RefsOf(ps, ps[p].patB))

\* What _resolve is to report on a tree: Undefined, or the Ref patterns of
\* the tree whose name has no entry in the definitions, from left to right.
Unresolved(ps, p, defs) ==
  LET NoEntry(r) == defs[ps[r].name] = Undefined
      refs == SelectSeq(RefsOf(ps, p), NoEntry)
  IN IF refs = <<>> THEN NoRefs ELSE Refs(refs)

\* C16: on every pattern tree of the grammar, _resolve(definitions) returns
\* the Ref patterns of the tree whose name has no entry in definitions,
\* those of the left subpattern before those of the right, and undefined
\* when there is none; so did every call made.
C16_UnresolvedReported ==
  /\ \A p \in 1..Len(pats) :
       _resolve(pats, p, definitions).ret = Unresolved(pats, p, definitions)
  /\ \A x \in resolved : x.ret = Unresolved(pats, x.root, definitions)

\* C16, its case: _resolve ran over a start tree and reported two Ref
\* patterns, one from each of its subpatterns.
C16_Witness ==
  \E x \in resolved :
    /\ x.root = Start
    /\ x.ret.defined
    /\ Len(x.ret.refs) = 2
    /\ x.ret.refs[1] \in Tree(pats, pats[Start].patA)
    /\ x.ret.refs[2] \in Tree(pats, pats[Start].patB)
    /\ \E p \in Tree(pats, Start) :
         pats[p].cls = "Ref" /\ pats[p].resolvesTo # Undefined

\* C17: once _resolve(definitions) ran over a tree, every Ref of the tree
\* whose name has an entry in definitions is bound to that entry, the
\* Define of that name; and where _resolve reported nothing, every Ref of
\* the tree is bound.
C17_RefsBound ==
  \A x \in resolved :
    \A p \in Tree(pats, x.root) :
      pats[p].cls = "Ref" =>
        /\ definitions[pats[p].name] # Undefined =>
             /\ pats[p].resolvesTo = definitions[pats[p].name]
             /\ pats[pats[p].resolvesTo].cls = "Define"
             /\ pats[pats[p].resolvesTo].name = pats[p].name
        /\ x.ret = NoRefs => pats[p].resolvesTo # Undefined

\* C17, its case: _resolve ran over a start tree with Ref patterns of two
\* names and reported nothing.
C17_Witness ==
  \E x \in resolved :
    /\ x.root = Start
    /\ x.ret = NoRefs
    /\ \E p, q \in Tree(pats, Start) :
         /\ pats[p].cls = "Ref" /\ pats[q].cls = "Ref"
         /\ pats[p].name # pats[q].name

\* C18: on every tree of the grammar, the traversals of _resolve and of
\* _prepare visit every pattern of the tree once and no other pattern: from
\* a Ref they do not go on into the Define it names.
C18_TraversalsStayInTree ==
  \A p \in 1..Len(pats) :
    \A visited \in {_resolve(pats, p, definitions).visited,
                    _prepare(pats, p, <<>>).visited} :
      /\ \A i, j \in 1..Len(visited) : visited[i] = visited[j] => i = j
      /\ {visited[i] : i \in 1..Len(visited)} = Tree(pats, p)
      /\ \A i \in 1..(Len(visited) - 1) :
           pats[visited[i]].cls = "Ref" =>
             visited[i + 1] # definitions[pats[visited[i]].name]

\* C18, its case: the definitions d and e refer to each other, the start
\* pattern to both, and every tree was resolved and prepared.
C18_Witness ==
  /\ definitions["d"] # Undefined /\ definitions["e"] # Undefined
  /\ pats[pats[definitions["d"]].pat].resolvesTo = definitions["e"]
  /\ pats[pats[definitions["e"]].pat].resolvesTo = definitions["d"]
  /\ \E p \in Tree(pats, Start) : pats[p].resolvesTo = definitions["d"]
  /\ prepared = TreeRoots

\* C19: for every walker and both values of attribute, canEnd is true
\* exactly when end(attribute) returns Ok.
C19_CanEndIffEndOk ==
  \A w \in WalkerIds, attribute \in BOOLEAN :
    canEnd(Heap, w, attribute) = "true" <=> end(Heap, w, attribute).ret = Ok

\* C20: _suppressAttributes on a walker with a subwalker leaves the walker's
\* suppressedAttributes flag true and, the first time, calls the subwalker
\* (whose flag, where it has a subwalker too, is then true as well); a
\* repeated call calls no subwalker and changes nothing; no call on any
\* walker takes a flag back to false; and the copy of a walker has the flag
\* of the walker.
C20_SuppressAttributes ==
  /\ \A w \in WalkerIds :
       walkers[w].subwalker # Undefined =>
         LET sub == walkers[w].subwalker
             r == suppressAttributes(Heap, w)
         IN /\ r.h.walkers[w].suppressedAttributes
            /\ ~walkers[w].suppressedAttributes =>
                 /\ Len(r.calls) >= 2 /\ r.calls[1] = w /\ r.calls[2] = sub
                 /\ walkers[sub].subwalker # Undefined =>
                      r.h.walkers[sub].suppressedAttributes
            /\ suppressAttributes(r.h, w) = [h |-> r.h, calls |-> <<w>>]
  /\ \A w, x \in WalkerIds :
       walkers[x].suppressedAttributes =>
         \A o \in Ops : Apply(Heap, w, o).walkers[x].suppressedAttributes
  /\ \A w \in WalkerIds :
       LET c == Walker__clone(Heap, w, <<>>)
       IN \A p \in Copies(c.h.walkers, w, c.ret) :
            c.h.walkers[p[2]].suppressedAttributes
              = walkers[p[1]].suppressedAttributes

\* C20, its case: _suppressAttributes was called on the walker of a Define
\* of a Define, which forwarded it, and the caller holds a copy made after
\* the call.
C20_Witness ==
  \E w, c \in roots :
    /\ w # c
    /\ walkers[w].subwalker # Undefined
    /\ walkers[walkers[w].subwalker].subwalker # Undefined
    /\ walkers[w].suppressedAttributes
    /\ walkers[walkers[w].subwalker].suppressedAttributes
    /\ walkers[c].suppressedAttributes
    /\ walkers[walkers[c].subwalker].suppressedAttributes

\* C21: in every reachable state, for every walker, the set that possible()
\* returns holds no compact event, and neither does any cached set.
C21_NoCompactEvents ==
  /\ \A w \in WalkerIds :
       \A ev \in Possibilities(Heap, w) : ev[1] \notin CompactEvents
  /\ \A w \in WalkerIds :
       walkers[w].possibleCached # Undefined =>
         \A ev \in sets[walkers[w].possibleCached] : ev[1] \notin CompactEvents

\* C21, its case: a walker reported what is possible, an event, and keeps
\* the set.
C21_Witness ==
  \E w \in roots :
    /\ walkers[Leaf(walkers, w)].possibleCached # Undefined
    /\ Possibilities(Heap, w) # {}

C23_CloneIsDeepCopy ==
  \A w \in WalkerIds :
    walkers[w].cls \in {"Value", "Define"} =>
      LET c == clone(Heap, w)
          Copied(x, y) ==
            LET a == walkers[x]
                b == c.h.walkers[y]
            IN /\ y \notin WalkerIds
               /\ b.cls = a.cls /\ b.el = a.el
               /\ b.matched = a.matched
               /\ b.canEnd = a.canEnd
               /\ b.canEndAttribute = a.canEndAttribute
               /\ b.suppressedAttributes = a.suppressedAttributes
               /\ b.possibleCached = a.possibleCached
               /\ a.nameResolver # Undefined =>
                    /\ b.nameResolver \notin 1..Len(resolvers)
                    /\ c.h.resolvers[b.nameResolver] = resolvers[a.nameResolver]
               /\ a.context # Undefined => b.context = b.nameResolver
      IN /\ \A p \in Copies(c.h.walkers, w, c.ret) : Copied(p[1], p[2])
         /\ c.h.sets = sets
         /\ \A x \in WalkerIds : c.h.walkers[x] = walkers[x]
         /\ \A r \in 1..Len(resolvers) : c.h.resolvers[r] = resolvers[r]

\* C23, its case: the caller holds a Value walker that accepted a text and
\* a copy of it, and the resolver of the one was changed since the copy was
\* made: the copy's resolver holds what it held then.
C23_Witness ==
  \E w, c \in roots :
    /\ walkers[w].cls = "Value" /\ walkers[c].cls = "Value"
    /\ walkers[w].matched /\ walkers[c].matched
    /\ walkers[w].nameResolver = DocResolver
    /\ walkers[c].nameResolver # DocResolver
    /\ resolvers[walkers[c].nameResolver] # resolvers[DocResolver]

\* C24: where a Define walker and a walker below it have one name resolver,
\* clone() makes one copy of the resolver, which the copy of the one and
\* the copy of the other both have; a second clone() makes another copy,
\* which is neither the original resolver nor the first copy.
C24_OneResolverCopyPerClone ==
  \A w \in WalkerIds :
    walkers[w].cls = "Define" /\ walkers[w].nameResolver # Undefined =>
      LET a == clone(Heap, w)
          b == clone(a.h, w)
          nrA == a.h.walkers[a.ret].nameResolver
          nrB == b.h.walkers[b.ret].nameResolver
      IN /\ \A p \in Copies(a.h.walkers, w, a.ret) :
              walkers[p[1]].nameResolver = walkers[w].nameResolver =>
                a.h.walkers[p[2]].nameResolver = nrA
         /\ Len(a.h.resolvers) = Len(resolvers) + 1
         /\ nrA = Len(resolvers) + 1
         /\ \A p \in Copies(b.h.walkers, w, b.ret) :
              walkers[p[1]].nameResolver = walkers[w].nameResolver =>
                b.h.walkers[p[2]].nameResolver = nrB
         /\ nrB = Len(resolvers) + 2
         /\ Len(b.h.resolvers) = Len(resolvers) + 2

\* C24, its case: the caller holds the walker of a Define of a Value, which
\* has the resolver of its subwalker, and a copy of it, which has the
\* resolver of its own subwalker, another one.
C24_Witness ==
  \E w, c \in roots :
    /\ walkers[w].cls = "Define" /\ walkers[c].cls = "Define"
    /\ walkers[walkers[w].subwalker].cls = "Value"
    /\ walkers[w].nameResolver = DocResolver
    /\ walkers[walkers[w].subwalker].nameResolver = DocResolver
    /\ walkers[c].nameResolver # DocResolver
    /\ walkers[walkers[c].subwalker].nameResolver = walkers[c].nameResolver

(***************************************************************************)
(* The construction of patterns, on its own.                               *)
(***************************************************************************)
\* The most calls of a pattern constructor.
MaxPatterns == 3

\* What a schema may name as the type of a value and as its library.
TypeNames == {"token", "QName", "nope"}

LibraryNames == {"", Xsd, "other"}

InitConstruct ==
  /\ pats = <<>>
  /\ walkers = <<>>
  /\ resolvers = <<>>
  /\ sets = <<>>
  /\ roots = {}
  /\ consumed = {}
  /\ NoEvents
  /\ definitions = DefinitionsOf(pats)
  /\ resolved = {}
  /\ prepared = {}
  /\ Pattern_id = 0
  /\ raised = {}

\* new Empty(xmlPath), new Ref(xmlPath, name), new Define(xmlPath, name, pat)
NewPattern(fields) ==
  LET b == BasePattern_constructor(Pattern_id, fields)
  IN /\ Pattern_id < MaxPatterns
     /\ pats' = Append(pats, b.el)
     /\ Pattern_id' = b.id
     /\ UNCHANGED <<walkers, resolvers, sets, roots, consumed, eventVars,
                    grammarVars, raised>>

\* new Value(xmlPath, value, type, datatypeLibrary, ns)
NewValue(value, type, datatypeLibrary, ns) ==
  LET r == Value_constructor(Pattern_id, value, type, datatypeLibrary, ns)
  IN /\ Pattern_id < MaxPatterns
     /\ pats' = IF r.threw THEN pats ELSE Append(pats, r.el)
     /\ Pattern_id' = r.id
     /\ raised' = IF r.threw
                  THEN raised \cup {[datatypeLibrary |-> datatypeLibrary,
                                     type |-> type]}
                  ELSE raised
     /\ UNCHANGED <<walkers, resolvers, sets, roots, consumed, eventVars,
                    grammarVars>>

NextConstruct ==
  \/ \E fields \in {EmptyPattern, RefPattern("d")} : NewPattern(fields)
  \/ \E pat \in 1..Len(pats) : NewPattern(DefinePattern("d", pat))
  \/ \E type \in TypeNames, datatypeLibrary \in LibraryNames :
       NewValue(<<"a">>, type, datatypeLibrary, "")

SpecConstruct == InitConstruct /\ [][NextConstruct]_vars

\* C25: the constructor of Value raises exactly when the registry has no
\* datatype of that type in that library; so every Value pattern there is
\* has a registered datatype, and a pair that made the constructor raise is
\* the datatype of no pattern.
C25_UnknownDatatypeRaises ==
  /\ \A type \in TypeNames, datatypeLibrary \in LibraryNames :
       Value_constructor(Pattern_id, <<"a">>, type, datatypeLibrary, "").threw
         <=> ~Registered(datatypeLibrary, type)
  /\ \A p \in 1..Len(pats) :
       pats[p].cls = "Value" =>
         /\ Registered(pats[p].datatypeLibrary, pats[p].type)
         /\ \A x \in raised :
              <<x.datatypeLibrary, x.type>>
                # <<pats[p].datatypeLibrary, pats[p].type>>

\* C25, its case: a Value was constructed, the construction of another, of
\* a type that its library does not have, raised, and so did one that named
\* a library that is not registered.
C25_Witness ==
  /\ \E p \in 1..Len(pats) : pats[p].cls = "Value"
  /\ \E x, y \in raised :
       /\ x.datatypeLibrary \in DOMAIN registry
       /\ y.datatypeLibrary \notin DOMAIN registry

\* C27: the ids of the patterns constructed so far differ from each other,
\* whatever the classes, and no step changes what hash() returns for a
\* pattern.
C27_PatternIdsUniqueAndStable ==
  /\ [](\A i, j \in 1..Len(pats) : i # j => hash(pats[i]) # hash(pats[j]))
  /\ [][\A i \in 1..Len(pats) :
          i <= Len(pats') /\ hash(pats'[i]) = hash(pats[i])]_vars

\* C27, its case: three patterns of three classes were constructed.
C27_Witness ==
  /\ Len(pats) = 3
  /\ pats[1].cls # pats[2].cls /\ pats[2].cls # pats[3].cls
  /\ pats[1].cls # pats[3].cls
  /\ hash(pats[3]) = 2

\* C26: no call on a walker (fireEvent, possible, end, suppressAttributes,
\* clone) and no newWalker changes a field of a pattern.
C26_PatternsImmutable ==
  /\ \A w \in WalkerIds, o \in Ops : Apply(Heap, w, o).pats = pats
  /\ \A p \in 1..Len(pats) : newWalker(Heap, p, DocResolver).h.pats = pats

\* C28: whenever fireEvent on a Value or Empty walker returns NoMatch, the
\* walker is as before the call (matched, canEnd, canEndAttribute, the
\* suppressed flag, the cached possibility set), and so is every other
\* walker and every event set.
C28_NoMatchConsumesNothing ==
  \A w \in WalkerIds, ev \in InputEvents :
    walkers[w].cls \in {"Value", "Empty"} =>
      LET r == callFireEvent(Heap, w, ev)
      IN r.ret = NoMatch => r.h.walkers = walkers /\ r.h.sets = sets

\* C28, its case: a Value walker that has not matched and one that has
\* each keep a set of possibilities, and a text is no match for either.
C28_Witness ==
  \E w, c \in roots :
    /\ walkers[w].cls = "Value" /\ walkers[c].cls = "Value"
    /\ ~walkers[w].matched /\ walkers[c].matched
    /\ walkers[w].possibleCached # Undefined
    /\ walkers[c].possibleCached # Undefined
    /\ \E ev \in InputEvents :
         /\ ev[1] = "text"
         /\ callFireEvent(Heap, w, ev).ret = NoMatch
         /\ callFireEvent(Heap, c, ev).ret = NoMatch

\* C29: the value a Value pattern has stored is the datatype's parse of the
\* raw value, under a new resolver that maps the default prefix to the
\* pattern's namespace where the datatype needs a context and without a
\* context otherwise; and that is what the getter stores and returns, for
\* the pattern of every walker, whatever the walker's name resolver holds.
C29_StoredValueIsParseOfRaw ==
  LET Parsed(el) ==
        parseValue(el.type, el.rawValue,
                   IF needsContext(el.type)
                   THEN definePrefix(NewNameResolver, <<>>, el.ns)
                   ELSE NoContext)
  IN /\ \A p \in 1..Len(pats) :
          pats[p].cls = "Value" /\ pats[p].value # <<>> =>
            ~Parsed(pats[p]).threw /\ pats[p].value = Parsed(pats[p]).value
     /\ \A w \in WalkerIds :
          walkers[w].cls = "Value" =>
            LET p == walkers[w].el
                v == Value_value(Heap, p)
            IN /\ v.threw = Parsed(pats[p]).threw
               /\ ~v.threw => /\ v.ret = Parsed(pats[p]).value
                              /\ v.h.pats[p].value = v.ret

\* C29, its case: a value whose datatype needs a context was parsed and
\* stored when a walker was fired on whose resolver maps the default prefix
\* to another namespace than the pattern's.
C29_Witness ==
  \E w \in roots :
    LET el == pats[walkers[w].el]
    IN /\ walkers[w].cls = "Value"
       /\ needsContext(el.type)
       /\ el.value # <<>>
       /\ ~walkers[w].matched
       /\ resolvers[walkers[w].nameResolver][<<>>] \notin {el.ns, Unbound}

\* C30: possible() on a Value walker returns the one-element set holding
\* the text event of the pattern's raw value while the walker has not
\* matched, and the empty set once it has, in every reachable state and
\* after every further operation on any walker.
C30_ValuePossibleIsTextOrEmpty ==
  LET Expected(h, w) ==
        IF h.walkers[w].matched THEN {}
        ELSE {Event("text", <<h.pats[h.walkers[w].el].rawValue>>)}
  IN \A w \in WalkerIds :
       walkers[w].cls = "Value" =>
         /\ Possibilities(Heap, w) = Expected(Heap, w)
         /\ \A x \in WalkerIds, o \in Ops :
              LET h == Apply(Heap, x, o)
              IN Possibilities(h, w) = Expected(h, w)

\* C30, its case: a Value walker that has matched and one that has not,
\* each with a set of possibilities computed before, and possible() gives
\* the empty set for the one and a text event for the other.
C30_Witness ==
  \E w, c \in roots :
    /\ walkers[w].cls = "Value" /\ walkers[c].cls = "Value"
    /\ walkers[w].matched /\ ~walkers[c].matched
    /\ walkers[c].possibleCached # Undefined
    /\ w \in consumed
    /\ Possibilities(Heap, w) = {}
    /\ Cardinality(Possibilities(Heap, c)) = 1

\* C31: a Value walker is single-shot.  An event is Ok only on a walker
\* that has not matched, and leaves it matched; on a matched walker every
\* event, the matching text again included, is NoMatch, also after any
\* further call on it; and no call on any walker makes a matched walker
\* unmatched.  So of the events fired on one walker at most one is Ok.
C31_ValueSingleShot ==
  \A w \in WalkerIds :
    walkers[w].cls = "Value" =>
      /\ \A ev \in InputEvents :
           LET r == callFireEvent(Heap, w, ev)
           IN /\ r.ret = Ok =>
                   /\ ~walkers[w].matched
                   /\ r.h.walkers[w].matched
                   /\ \A o \in Ops, ev2 \in FewEvents \cup {ev} :
                        callFireEvent(Apply(r.h, w, o), w, ev2).ret = NoMatch
              /\ walkers[w].matched =>
                   r.ret = NoMatch /\ r.h.walkers[w].matched
      /\ walkers[w].matched =>
           \A x \in WalkerIds, o \in Ops : Apply(Heap, x, o).walkers[w].matched

\* C31, its case: a walker that accepted a text is fired the text of its
\* raw value once more, and a walker that has not matched would accept it.
C31_Witness ==
  \E w, c \in roots :
    /\ walkers[w].cls = "Value" /\ walkers[c].cls = "Value"
    /\ walkers[w].el = walkers[c].el
    /\ w \in consumed /\ walkers[w].matched /\ ~walkers[c].matched
    /\ LET ev == Event("text", <<pats[walkers[w].el].rawValue>>)
       IN /\ callFireEvent(Heap, w, ev).ret = NoMatch
          /\ callFireEvent(Heap, c, ev).ret = Ok

\* C32: there is one Event object per distinct event: two constructions
\* whose parameter lists differ, in length or in an element, returned
\* different objects with different ids.
C32_DistinctEventsDistinctObjects ==
  \A m, n \in made :
    m.params # n.params => m.event # n.event /\ m.id # n.id

\* C33: only the Empty walker responds positively to emptyEvent: fired on
\* the Empty walker it is Ok, fired on any other walker it is NoMatch.
C33_OnlyEmptyAcceptsEmptyEvent ==
  \A w \in WalkerIds :
    callFireEvent(Heap, w, emptyEvent).ret =
      IF walkers[w].cls = "Empty" THEN Ok ELSE NoMatch

\* C34: end() on a Value walker that cannot end returns one error, "value
\* required" with the pattern's raw value, whether or not it is asked for
\* attributes, and changes nothing: the walker still cannot end, a text
\* that matches is accepted, and end() after that text returns Ok.
C34_EndReportsValueRequired ==
  \A w \in WalkerIds :
    walkers[w].cls = "Value" /\ ~walkers[w].canEnd =>
      /\ \A attribute \in BOOLEAN :
           LET e == end(Heap, w, attribute)
           IN /\ e.ret = "Errors"
              /\ e.errors = <<ValueRequired(pats[walkers[w].el].rawValue)>>
              /\ Apply(Heap, w, [op |-> "end", ev |-> emptyEvent,
                                 edit |-> "keep"]) = Heap
      /\ \A ev \in InputEvents :
           LET r == callFireEvent(Heap, w, ev)
           IN r.ret = Ok =>
                \A attribute \in BOOLEAN :
                  end(r.h, w, attribute) = [ret |-> Ok, errors |-> <<>>]

\* C34, its case: a walker a caller holds cannot end, and there is a text
\* that it accepts.
C34_Witness ==
  \E w \in roots :
    /\ walkers[w].cls = "Value" /\ ~walkers[w].canEnd
    /\ pats[walkers[w].el].rawValue # <<>>
    /\ end(Heap, w, TRUE).ret = "Errors"
    /\ \E ev \in InputEvents : callFireEvent(Heap, w, ev).ret = Ok

\* C35: fireEvent on an Empty or Value walker returns Ok or NoMatch and
\* nothing else; an event that is not accepted, a text that does not equal
\* the expected value included, is NoMatch and leaves every walker as it
\* was.
C35_LeafFireEventOkOrNoMatch ==
  \A w \in WalkerIds, ev \in InputEvents :
    walkers[w].cls \in {"Value", "Empty"} =>
      LET r == callFireEvent(Heap, w, ev)
      IN /\ r.ret \in {Ok, NoMatch}
         /\ r.ret # Ok => r.ret = NoMatch /\ r.h.walkers = walkers

\* C36: a Define walker is transparent: what fireEvent, canEnd, end and
\* possible give on it is what they give on its subwalker alone, in every
\* state the two reach together.
C36_DefineWalkerTransparent ==
  \A w \in WalkerIds :
    walkers[w].cls = "Define" =>
      LET s == walkers[w].subwalker
      IN /\ \A ev \in InputEvents :
              callFireEvent(Heap, w, ev).ret = callFireEvent(Heap, s, ev).ret
         /\ \A attribute \in BOOLEAN :
              /\ canEnd(Heap, w, attribute) = canEnd(Heap, s, attribute)
              /\ end(Heap, w, attribute) = end(Heap, s, attribute)
         /\ Possibilities(Heap, w) = Possibilities(Heap, s)

\* C37: on every Empty and Value walker, a clone or not, canEnd and
\* canEndAttribute are equal, so canEnd gives one answer for attributes and
\* for content; and they are equal on the clone that clone() returns.
C37_CanEndEqualsCanEndAttribute ==
  \A w \in WalkerIds :
    walkers[w].cls \in {"Value", "Empty"} =>
      /\ walkers[w].canEnd = walkers[w].canEndAttribute
      /\ canEnd(Heap, w, TRUE) = canEnd(Heap, w, FALSE)
      /\ LET c == clone(Heap, w)
         IN /\ c.h.walkers[c.ret].canEnd = walkers[w].canEnd
            /\ c.h.walkers[c.ret].canEndAttribute = walkers[w].canEnd

\* C37, its case: a caller holds a Value walker that accepted a text and a
\* clone of it, made after; the raw value is not empty, so neither could
\* end before the text.
C37_Witness ==
  \E w, c \in roots :
    /\ w < c
    /\ walkers[w].cls = "Value" /\ walkers[c].cls = "Value"
    /\ walkers[w].el = walkers[c].el
    /\ pats[walkers[w].el].rawValue # <<>>
    /\ w \in consumed /\ c \in consumed
    /\ walkers[c].canEnd /\ walkers[c].canEndAttribute

\* C38: _suppressAttributes on an Empty or Value walker changes nothing:
\* the heap is as before, so the flag is false on every leaf walker, the
\* cached possibilities are kept, and possible() and canEnd answer as
\* before; and called on any walker, a holder of the leaf included, it
\* leaves every leaf walker, the one Empty walker among them, as it was.
C38_SuppressAttributesNoOpOnLeaves ==
  \A w \in WalkerIds :
    walkers[w].cls \in {"Value", "Empty"} =>
      /\ ~walkers[w].suppressedAttributes
      /\ suppressAttributes(Heap, w).h = Heap
      /\ \A x \in WalkerIds :
           LET h == suppressAttributes(Heap, x).h
           IN /\ h.walkers[w] = walkers[w]
              /\ Possibilities(h, w) = Possibilities(Heap, w)
              /\ \A attribute \in BOOLEAN :
                   canEnd(h, w, attribute) = canEnd(Heap, w, attribute)

\* C38, its case: attributes were suppressed on a Define walker a caller
\* holds, whose subwalker is a Value walker that keeps a set of
\* possibilities and has its flag false.
C38_Witness ==
  \E w \in roots :
    /\ walkers[w].cls = "Define" /\ walkers[w].suppressedAttributes
    /\ walkers[walkers[w].subwalker].cls = "Value"
    /\ walkers[walkers[w].subwalker].possibleCached # Undefined
    /\ ~walkers[walkers[w].subwalker].suppressedAttributes

====
